---------------------------- MODULE Spec2Model ----------------------------
(***************************************************************************)
(* Resume analysis API (backend/main.py, backend/utils.py).                *)
(*                                                                         *)
(* A Python str is modelled as a sequence of one-character strings; a code *)
(* point outside ASCII is written "U+XXXX" and still occupies one place.   *)
(* A score is an integer number of hundredths (1.5 is 150).  Python's None *)
(* and an Optional value v are the sequences << >> and << v >>.  A dict is *)
(* a record, or a function when its keys are computed.                     *)
(***************************************************************************)
EXTENDS Integers, Sequences, FiniteSets, TLC

VARIABLES
    ONTOLOGY,        \* main.py:14, loaded once at process start
    hash_seed,       \* the process's str hash randomisation (PYTHONHASHSEED)
    pc,              \* the statement of analyze the request is at
    file_name,       \* file.filename
    pdf,             \* what the PDF decoder makes of the uploaded bytes
    target_role,     \* Optional[str] form field
    job_description, \* Optional[str] form field
    grade,           \* readability oracle: << g >>, g tenths of a grade; << >> if it raises
    fuzzy,           \* fuzzy oracle: the score partial_ratio gives each key on this text
    text,            \* analyze: text, whole
    sections,        \* analyze: sections
    skills,          \* analyze: skills
    blts,            \* analyze: blts
    bullets_score,   \* analyze: bullets_score
    clarity,         \* analyze: clarity
    ats,             \* analyze: (ats_score, ats_reasons)
    proj_score,      \* analyze: proj_score
    hygiene_score,   \* analyze: hygiene_score
    rubric,          \* analyze: the six capped sub-scores and overall
    tips,            \* analyze: tips
    summary,         \* analyze: summary
    jdcomp,          \* analyze: jdcomp
    response,        \* the body of the reply, << >> until there is one
    status,          \* HTTP status of the reply, 0 while the request is open
    decoded,         \* how many times the decoder ran for this request
    engine_steps,    \* how many engine statements ran for this request
    last_served      \* the last completed analysis, for comparison with the next

inputs == <<file_name, pdf, target_role, job_description, grade, fuzzy>>
locals == <<text, sections, skills, blts, bullets_score, clarity, ats, proj_score,
            hygiene_score, rubric, tips, summary, jdcomp>>
vars == <<ONTOLOGY, hash_seed, pc, inputs, locals, response, status, decoded,
          engine_steps, last_served>>

----------------------------------------------------------------------------
(* The str literals of the source *)


\* utils.py:10: "experience"
S_experience == <<"e", "x", "p", "e", "r", "i", "e", "n", "c", "e">>

\* utils.py:10: "work"
S_work == <<"w", "o", "r", "k">>

\* utils.py:10: "projects"
S_projects == <<"p", "r", "o", "j", "e", "c", "t", "s">>

\* utils.py:10: "education"
S_education == <<"e", "d", "u", "c", "a", "t", "i", "o", "n">>

\* utils.py:10: "skills"
S_skills == <<"s", "k", "i", "l", "l", "s">>

\* utils.py:10: "summary"
S_summary == <<"s", "u", "m", "m", "a", "r", "y">>

\* utils.py:10: "certifications"
S_certifications == <<"c", "e", "r", "t", "i", "f", "i", "c", "a", "t", "i", "o", "n", "s">>

\* utils.py:86: "python"
S_python == <<"p", "y", "t", "h", "o", "n">>

\* utils.py:86: "sql"
S_sql == <<"s", "q", "l">>

\* utils.py:86: "react"
S_react == <<"r", "e", "a", "c", "t">>

\* utils.py:86: "docker"
S_docker == <<"d", "o", "c", "k", "e", "r">>

\* utils.py:86: "pandas"
S_pandas == <<"p", "a", "n", "d", "a", "s">>

\* utils.py:86: "tensorflow"
S_tensorflow == <<"t", "e", "n", "s", "o", "r", "f", "l", "o", "w">>

\* utils.py:86: "pytorch"
S_pytorch == <<"p", "y", "t", "o", "r", "c", "h">>

\* utils.py:86: "powerbi"
S_powerbi == <<"p", "o", "w", "e", "r", "b", "i">>

\* utils.py:86: "tableau"
S_tableau == <<"t", "a", "b", "l", "e", "a", "u">>

\* utils.py:86: "fastapi"
S_fastapi == <<"f", "a", "s", "t", "a", "p", "i">>

\* utils.py:86: "flask"
S_flask == <<"f", "l", "a", "s", "k">>

\* utils.py:86: "airflow"
S_airflow == <<"a", "i", "r", "f", "l", "o", "w">>

\* utils.py:185: "numpy"
S_numpy == <<"n", "u", "m", "p", "y">>

\* utils.py:152: "problem"
S_problem == <<"p", "r", "o", "b", "l", "e", "m">>

\* utils.py:152: "challenge"
S_challenge == <<"c", "h", "a", "l", "l", "e", "n", "g", "e">>

\* utils.py:152: "goal"
S_goal == <<"g", "o", "a", "l">>

\* utils.py:154: "approach"
S_approach == <<"a", "p", "p", "r", "o", "a", "c", "h">>

\* utils.py:154: "method"
S_method == <<"m", "e", "t", "h", "o", "d">>

\* utils.py:154: "stack"
S_stack == <<"s", "t", "a", "c", "k">>

\* utils.py:154: "tech"
S_tech == <<"t", "e", "c", "h">>

\* utils.py:125: "ed"
S_ed == <<"e", "d">>

\* utils.py:126: "ing"
S_ing == <<"i", "n", "g">>

\* main.py:43: ".pdf"
S_pdf == <<".", "p", "d", "f">>

\* main.py:58, utils.py:43, utils.py:194: "\n"
S_newline == <<"\n">>

\* utils.py:174: ", "
S_comma == <<",", " ">>

\* main.py:79: "; "
S_semicolon == <<";", " ">>

\* main.py:44: "Please upload a PDF resume."
MSG_upload_pdf ==
    <<"P", "l", "e", "a", "s", "e", " ", "u", "p", "l", "o", "a", "d", " ", "a", " ", "P",
    "D", "F", " ", "r", "e", "s", "u", "m", "e", ".">>

\* main.py:51: "Failed to parse PDF: "
MSG_parse_failed ==
    <<"F", "a", "i", "l", "e", "d", " ", "t", "o", " ", "p", "a", "r", "s", "e", " ", "P",
    "D", "F", ":", " ">>

\* utils.py:72: "No bullet points detected."
MSG_no_bullets ==
    <<"N", "o", " ", "b", "u", "l", "l", "e", "t", " ", "p", "o", "i", "n", "t", "s", " ",
    "d", "e", "t", "e", "c", "t", "e", "d", ".">>

\* utils.py:93: "Many bullets lack strong action verbs."
MSG_lack_verbs ==
    <<"M", "a", "n", "y", " ", "b", "u", "l", "l", "e", "t", "s", " ", "l", "a", "c", "k",
    " ", "s", "t", "r", "o", "n", "g", " ", "a", "c", "t", "i", "o", "n", " ", "v", "e",
    "r", "b", "s", ".">>

\* utils.py:95: "Few bullets quantify impact (%, #, time)."
MSG_few_metrics ==
    <<"F", "e", "w", " ", "b", "u", "l", "l", "e", "t", "s", " ", "q", "u", "a", "n", "t",
    "i", "f", "y", " ", "i", "m", "p", "a", "c", "t", " ", "(", "%", ",", " ", "#", ",",
    " ", "t", "i", "m", "e", ")", ".">>

\* utils.py:97: "Bullets often miss concrete tech/context."
MSG_miss_tech ==
    <<"B", "u", "l", "l", "e", "t", "s", " ", "o", "f", "t", "e", "n", " ", "m", "i", "s",
    "s", " ", "c", "o", "n", "c", "r", "e", "t", "e", " ", "t", "e", "c", "h", "/", "c",
    "o", "n", "t", "e", "x", "t", ".">>

\* utils.py:136: "Resume likely exceeds recommended length."
MSG_too_long ==
    <<"R", "e", "s", "u", "m", "e", " ", "l", "i", "k", "e", "l", "y", " ", "e", "x", "c",
    "e", "e", "d", "s", " ", "r", "e", "c", "o", "m", "m", "e", "n", "d", "e", "d", " ",
    "l", "e", "n", "g", "t", "h", ".">>

\* utils.py:139: "Tabs/tables may hurt ATS parsing."
MSG_tabs ==
    <<"T", "a", "b", "s", "/", "t", "a", "b", "l", "e", "s", " ", "m", "a", "y", " ", "h",
    "u", "r", "t", " ", "A", "T", "S", " ", "p", "a", "r", "s", "i", "n", "g", ".">>

\* utils.py:142: "Too few bullet points detected."
MSG_few_bullets ==
    <<"T", "o", "o", " ", "f", "e", "w", " ", "b", "u", "l", "l", "e", "t", " ", "p", "o",
    "i", "n", "t", "s", " ", "d", "e", "t", "e", "c", "t", "e", "d", ".">>

\* utils.py:145: "Missing standard section headers."
MSG_no_headers ==
    <<"M", "i", "s", "s", "i", "n", "g", " ", "s", "t", "a", "n", "d", "a", "r", "d", " ",
    "s", "e", "c", "t", "i", "o", "n", " ", "h", "e", "a", "d", "e", "r", "s", ".">>

\* utils.py:173: "technology"
S_technology == <<"t", "e", "c", "h", "n", "o", "l", "o", "g", "y">>

\* utils.py:174: "impactful projects"
S_impactful_projects ==
    <<"i", "m", "p", "a", "c", "t", "f", "u", "l", " ", "p", "r", "o", "j", "e", "c", "t",
    "s">>

\* utils.py:175: "Early\u2011career "
SUMMARY_1 == <<"E", "a", "r", "l", "y", "U+2011", "c", "a", "r", "e", "e", "r", " ">>

\* utils.py:175: " candidate with hands\u2011on experience in "
SUMMARY_2 ==
    <<" ", "c", "a", "n", "d", "i", "d", "a", "t", "e", " ", "w", "i", "t", "h", " ", "h",
    "a", "n", "d", "s", "U+2011", "o", "n", " ", "e", "x", "p", "e", "r", "i", "e", "n",
    "c", "e", " ", "i", "n", " ">>

\* utils.py:175-176: ". Delivers measurable outcomes through clear problem framing, rapid experimentation, and clean deliverables."
SUMMARY_3 ==
    <<".", " ", "D", "e", "l", "i", "v", "e", "r", "s", " ", "m", "e", "a", "s", "u", "r",
    "a", "b", "l", "e", " ", "o", "u", "t", "c", "o", "m", "e", "s", " ", "t", "h", "r",
    "o", "u", "g", "h", " ", "c", "l", "e", "a", "r", " ", "p", "r", "o", "b", "l", "e",
    "m", " ", "f", "r", "a", "m", "i", "n", "g", ",", " ", "r", "a", "p", "i", "d", " ",
    "e", "x", "p", "e", "r", "i", "m", "e", "n", "t", "a", "t", "i", "o", "n", ",", " ",
    "a", "n", "d", " ", "c", "l", "e", "a", "n", " ", "d", "e", "l", "i", "v", "e", "r",
    "a", "b", "l", "e", "s", ".">>

\* utils.py:188: "Add a bullet showing "
REC_1 ==
    <<"A", "d", "d", " ", "a", " ", "b", "u", "l", "l", "e", "t", " ", "s", "h", "o", "w",
    "i", "n", "g", " ">>

\* utils.py:188: " in context of a project/result."
REC_2 ==
    <<" ", "i", "n", " ", "c", "o", "n", "t", "e", "x", "t", " ", "o", "f", " ", "a", " ",
    "p", "r", "o", "j", "e", "c", "t", "/", "r", "e", "s", "u", "l", "t", ".">>

\* utils.py:200: "Experience/Projects"
TIP_bullet_section ==
    <<"E", "x", "p", "e", "r", "i", "e", "n", "c", "e", "/", "P", "r", "o", "j", "e", "c",
    "t", "s">>

\* utils.py:201: "Bullet lacks measurable result"
TIP_bullet_issue ==
    <<"B", "u", "l", "l", "e", "t", " ", "l", "a", "c", "k", "s", " ", "m", "e", "a", "s",
    "u", "r", "a", "b", "l", "e", " ", "r", "e", "s", "u", "l", "t">>

\* utils.py:202: " ... resulting in {metric} (e.g., +23%, \u2212120ms, 2\u00D7 throughput)."
TIP_bullet_fix ==
    <<" ", ".", ".", ".", " ", "r", "e", "s", "u", "l", "t", "i", "n", "g", " ", "i", "n",
    " ", "{", "m", "e", "t", "r", "i", "c", "}", " ", "(", "e", ".", "g", ".", ",", " ",
    "+", "2", "3", "%", ",", " ", "U+2212", "1", "2", "0", "m", "s", ",", " ", "2",
    "U+00D7", " ", "t", "h", "r", "o", "u", "g", "h", "p", "u", "t", ")", ".">>

\* utils.py:207: "Skills"
TIP_skills_section == <<"S", "k", "i", "l", "l", "s">>

\* utils.py:208: "Skills too generic or short"
TIP_skills_issue ==
    <<"S", "k", "i", "l", "l", "s", " ", "t", "o", "o", " ", "g", "e", "n", "e", "r", "i",
    "c", " ", "o", "r", " ", "s", "h", "o", "r", "t">>

\* utils.py:209: "Group as Languages / Libraries / Tools with 4\u20136 items each."
TIP_skills_fix ==
    <<"G", "r", "o", "u", "p", " ", "a", "s", " ", "L", "a", "n", "g", "u", "a", "g", "e",
    "s", " ", "/", " ", "L", "i", "b", "r", "a", "r", "i", "e", "s", " ", "/", " ", "T",
    "o", "o", "l", "s", " ", "w", "i", "t", "h", " ", "4", "U+2013", "6", " ", "i", "t",
    "e", "m", "s", " ", "e", "a", "c", "h", ".">>

\* utils.py:213: "Projects"
TIP_projects_section == <<"P", "r", "o", "j", "e", "c", "t", "s">>

\* utils.py:214: "Missing or weak projects section"
TIP_projects_issue ==
    <<"M", "i", "s", "s", "i", "n", "g", " ", "o", "r", " ", "w", "e", "a", "k", " ", "p",
    "r", "o", "j", "e", "c", "t", "s", " ", "s", "e", "c", "t", "i", "o", "n">>

\* utils.py:215: "Add 2 projects with Problem\u2192Approach\u2192Result and links."
TIP_projects_fix ==
    <<"A", "d", "d", " ", "2", " ", "p", "r", "o", "j", "e", "c", "t", "s", " ", "w", "i",
    "t", "h", " ", "P", "r", "o", "b", "l", "e", "m", "U+2192", "A", "p", "p", "r", "o",
    "a", "c", "h", "U+2192", "R", "e", "s", "u", "l", "t", " ", "a", "n", "d", " ", "l",
    "i", "n", "k", "s", ".">>

\* main.py:79: "Structure/ATS"
TIP_ats_section == <<"S", "t", "r", "u", "c", "t", "u", "r", "e", "/", "A", "T", "S">>

\* main.py:79: "Use simple headers and bullet lists; avoid tables/columns."
TIP_ats_fix ==
    <<"U", "s", "e", " ", "s", "i", "m", "p", "l", "e", " ", "h", "e", "a", "d", "e", "r",
    "s", " ", "a", "n", "d", " ", "b", "u", "l", "l", "e", "t", " ", "l", "i", "s", "t",
    "s", ";", " ", "a", "v", "o", "i", "d", " ", "t", "a", "b", "l", "e", "s", "/", "c",
    "o", "l", "u", "m", "n", "s", ".">>

----------------------------------------------------------------------------
(* Characters and str methods *)

UpperSeq == <<"A", "B", "C", "D", "E", "F", "G", "H", "I", "J", "K", "L", "M",
              "N", "O", "P", "Q", "R", "S", "T", "U", "V", "W", "X", "Y", "Z">>
LowerSeq == <<"a", "b", "c", "d", "e", "f", "g", "h", "i", "j", "k", "l", "m",
              "n", "o", "p", "q", "r", "s", "t", "u", "v", "w", "x", "y", "z">>
DigitSeq == <<"0", "1", "2", "3", "4", "5", "6", "7", "8", "9">>
\* the other ASCII characters the inputs use, in code point order
PunctLow == <<"\t", "\n", " ", "!", "#", "%", "&", "(", ")", "*", "+", ",", "-", ".", "/">>
PunctMid == <<":", ";", "@">>

Range(s) == {s[i] : i \in 1..Len(s)}
UpperAZ == Range(UpperSeq)
LowerAZ == Range(LowerSeq)
Digits == Range(DigitSeq)
\* str.isspace, and \s of the regular expressions
Whitespace == {" ", "\t", "\n"}
\* \w of the regular expressions
WordChars == UpperAZ \cup LowerAZ \cup Digits \cup {"_"}

\* code point order of the characters, for sorted()
OrdSeq == PunctLow \o DigitSeq \o PunctMid \o UpperSeq \o <<"_">> \o LowerSeq
Ord(c) == CHOOSE i \in 1..Len(OrdSeq) : OrdSeq[i] = c

LowerChar(c) == IF c \in UpperAZ THEN LowerSeq[CHOOSE i \in 1..26 : UpperSeq[i] = c] ELSE c
UpperChar(c) == IF c \in LowerAZ THEN UpperSeq[CHOOSE i \in 1..26 : LowerSeq[i] = c] ELSE c

\* a sequence given as a function, as the tuple it is: TLC then builds it once, not at
\* every use
Tuple(f) == <<>> \o f

\* str.lower
Lower(s) == Tuple([i \in 1..Len(s) |-> LowerChar(s[i])])

\* str.capitalize
Capitalize(s) ==
    Tuple([i \in 1..Len(s) |-> IF i = 1 THEN UpperChar(s[i]) ELSE LowerChar(s[i])])

\* str.strip
Strip(s) ==
    IF \A i \in 1..Len(s) : s[i] \in Whitespace THEN <<>>
    ELSE LET a == CHOOSE i \in 1..Len(s) :
                     s[i] \notin Whitespace /\ \A j \in 1..(i - 1) : s[j] \in Whitespace
             b == CHOOSE i \in 1..Len(s) :
                     s[i] \notin Whitespace /\ \A j \in (i + 1)..Len(s) : s[j] \in Whitespace
         IN SubSeq(s, a, b)

\* h occurs in s at position p
MatchAt(s, p, h) == p >= 1 /\ p + Len(h) - 1 <= Len(s) /\ \A j \in 1..Len(h) : s[p + j - 1] = h[j]

\* h in s
Contains(s, h) == \E p \in 1..(Len(s) - Len(h) + 1) : MatchAt(s, p, h)

\* str.endswith
EndsWith(s, h) == Len(h) <= Len(s) /\ MatchAt(s, Len(s) - Len(h) + 1, h)

\* str.count of a single character
Count(s, c) == Cardinality({i \in 1..Len(s) : s[i] = c})

\* the first position >= p whose character is in the set cs, or Len(s) + 1
FirstIn(s, p, cs) ==
    IF \E i \in p..Len(s) : s[i] \in cs
    THEN CHOOSE i \in p..Len(s) : s[i] \in cs /\ \A j \in p..(i - 1) : s[j] \notin cs
    ELSE Len(s) + 1

\* the first position >= p whose character is not in the set cs, or Len(s) + 1
FirstNotIn(s, p, cs) ==
    IF \E i \in p..Len(s) : s[i] \notin cs
    THEN CHOOSE i \in p..Len(s) : s[i] \notin cs /\ \A j \in p..(i - 1) : s[j] \in cs
    ELSE Len(s) + 1

\* str.splitlines ("\n" is the only line boundary of the alphabet)
RECURSIVE SplitLinesFrom(_, _)
SplitLinesFrom(s, p) ==
    IF p > Len(s) THEN <<>>
    ELSE LET e == FirstIn(s, p, {"\n"})
         IN <<SubSeq(s, p, e - 1)>> \o SplitLinesFrom(s, e + 1)
SplitLines(s) == SplitLinesFrom(s, 1)

\* str.split() with no separator: the maximal runs of non-whitespace
RECURSIVE SplitFrom(_, _)
SplitFrom(s, p) ==
    LET a == FirstNotIn(s, p, Whitespace)
    IN IF a > Len(s) THEN <<>>
       ELSE LET e == FirstIn(s, a, Whitespace)
            IN <<SubSeq(s, a, e - 1)>> \o SplitFrom(s, e)
Split(s) == SplitFrom(s, 1)

\* sep.join(parts)
RECURSIVE Join(_, _)
Join(sep, parts) ==
    IF parts = <<>> THEN <<>>
    ELSE IF Len(parts) = 1 THEN parts[1]
    ELSE parts[1] \o sep \o Join(sep, Tail(parts))

\* lexicographic order of str by code point
RECURSIVE StrLess(_, _)
StrLess(a, b) ==
    IF b = <<>> THEN FALSE
    ELSE IF a = <<>> THEN TRUE
    ELSE IF a[1] = b[1] THEN StrLess(Tail(a), Tail(b))
    ELSE Ord(a[1]) < Ord(b[1])

\* sorted(set of str)
RECURSIVE Sorted(_)
Sorted(S) ==
    IF S = {} THEN <<>>
    ELSE LET m == CHOOSE x \in S : \A y \in S \ {x} : StrLess(x, y)
         IN <<m>> \o Sorted(S \ {m})

\* seq[:n]
Take(seq, n) == SubSeq(seq, 1, IF Len(seq) < n THEN Len(seq) ELSE n)

\* [x for x in seq if x in S]
RECURSIVE Filter(_, _)
Filter(seq, S) ==
    IF seq = <<>> THEN <<>>
    ELSE (IF seq[1] \in S THEN <<seq[1]>> ELSE <<>>) \o Filter(Tail(seq), S)

Min(a, b) == IF a <= b THEN a ELSE b
Max(a, b) == IF a >= b THEN a ELSE b

\* round(num / den) to the nearest integer, ties to even, den > 0; round(x, 2) of a
\* score x = num / (100 * den).  Python rounds the binary double, which at an exact
\* decimal tie may lie on either side; a value that is not a tie rounds the same.
RoundHalfEven(num, den) ==
    LET q == num \div den
        r == num % den
    IN IF 2 * r > den THEN q + 1
       ELSE IF 2 * r < den THEN q
       ELSE IF q % 2 = 0 THEN q ELSE q + 1

\* round(x, 2) of a double computed for num / den hundredths, as a set: the nearest
\* integer, and both neighbours when num / den lies exactly between them, where the error
\* of the float arithmetic decides
RoundFloat(num, den) ==
    IF 2 * (num % den) = den THEN {num \div den, num \div den + 1}
    ELSE {RoundHalfEven(num, den)}

----------------------------------------------------------------------------
(* backend/utils.py *)

None == <<>>
Some(v) == <<v>>
\* dict.get(key, default) on a function
Get(d, key, default) == IF key \in DOMAIN d THEN d[key] ELSE default

HEADER_HINTS == <<S_experience, S_work, S_projects, S_education, S_skills, S_summary,
                  S_certifications>>
HEADER_MAX_LEN == 40

\* the header test without the limit on the line's length
MatchedHeader_anylen(ln) ==
    LET key == Lower(ln)
        hits == {i \in 1..Len(HEADER_HINTS) : Contains(key, HEADER_HINTS[i])}
    IN IF hits = {} THEN None
       ELSE Some(HEADER_HINTS[CHOOSE i \in hits : \A j \in hits : i <= j])

\* the header test of detect_sections: the first hint the line holds, None if it is no header
MatchedHeader(ln) ==
    LET key == Lower(ln)
        hits == {i \in 1..Len(HEADER_HINTS) :
                    Contains(key, HEADER_HINTS[i]) /\ Len(ln) <= HEADER_MAX_LEN}
    IN IF hits = {} THEN None
       ELSE Some(HEADER_HINTS[CHOOSE i \in hits : \A j \in hits : i <= j])

\* the loop of detect_sections over the stripped lines
RECURSIVE SectionLoop(_, _, _)
SectionLoop(lines, current, acc) ==
    IF lines = <<>> THEN acc
    ELSE LET matched == MatchedHeader(lines[1])
         IN IF matched # None
            THEN SectionLoop(Tail(lines), matched[1], acc)
            ELSE SectionLoop(Tail(lines), current,
                             [acc EXCEPT ![current] = Append(@, lines[1])])

\* the dict of line lists detect_sections builds before it joins them
SectionLines(txt) ==
    LET raw == SplitLines(txt)
        lines == Tuple([i \in 1..Len(raw) |-> Strip(raw[i])])
    IN SectionLoop(lines, S_summary, [k \in Range(HEADER_HINTS) |-> <<>>])

detect_sections(txt) ==
    LET acc == SectionLines(txt)
    IN [k \in {h \in DOMAIN acc : acc[h] # <<>>} |-> Strip(Join(S_newline, acc[k]))]

NormKeep == LowerAZ \cup Digits \cup {"+", ".", "#"}
normalize_token(t) ==
    Strip(Tuple([i \in 1..Len(t) |->
                    IF LowerChar(t[i]) \in NormKeep THEN LowerChar(t[i]) ELSE " "]))

\* the maximal runs of \w characters of s
WordRuns(s) ==
    {SubSeq(s, a, FirstNotIn(s, a, WordChars) - 1) :
        a \in {i \in 1..Len(s) : s[i] \in WordChars /\ (i = 1 \/ s[i - 1] \notin WordChars)}}

\* set(re.split(r"\W+", s)): the runs, and "" when s is empty or a separator is at an end
ReSplitNonWord(s) ==
    WordRuns(s) \cup
    (IF s = <<>> \/ s[1] \notin WordChars \/ s[Len(s)] \notin WordChars THEN {<<>>} ELSE {})

\* fuzz.partial_ratio(key, norm_text): the oracle's answer for this request
partial_ratio(fz, key) == Get(fz, key, 0)
FUZZY_THRESHOLD == 90

\* every synonym of every bucket of ontology["skills"]
Synonyms(ontology) ==
    LET sk == Get(ontology, "skills", <<>>)
    IN UNION {Range(sk[b]) : b \in DOMAIN sk}

extract_skills(txt, ontology, fz) ==
    LET tokens == {normalize_token(w) : w \in ReSplitNonWord(Lower(txt))}
        found == {s \in Synonyms(ontology) :
                     \/ normalize_token(s) \in tokens
                     \/ partial_ratio(fz, normalize_token(s)) > FUZZY_THRESHOLD}
    IN Sorted(found)

BULLET_MARKERS == {"-", "U+2022", "*"}
BULLET_MAX_TAIL == 200

\* ACTION_BULLET_RE matched at p: where group 1 starts, 0 if there is no match at p
CaptureStart(t, p) ==
    IF ~(p = 1 \/ t[p - 1] = "\n") THEN 0
    ELSE IF t[p] \in UpperAZ THEN p
    ELSE IF t[p] \in BULLET_MARKERS
         THEN LET q == FirstNotIn(t, p + 1, Whitespace)
              IN IF q <= Len(t) /\ t[q] \in UpperAZ THEN q ELSE 0
    ELSE 0

\* ACTION_BULLET_RE.finditer from the line start p on
RECURSIVE BulletsFrom(_, _)
BulletsFrom(t, p) ==
    IF p > Len(t) THEN <<>>
    ELSE LET q == CaptureStart(t, p)
         IN IF q = 0 THEN BulletsFrom(t, FirstIn(t, p, {"\n"}) + 1)
            ELSE LET e == Min(q + BULLET_MAX_TAIL, FirstIn(t, q, {"\n"}) - 1)
                 IN <<Strip(SubSeq(t, q, e))>> \o BulletsFrom(t, FirstIn(t, e + 1, {"\n"}) + 1)

bullets(t) == BulletsFrom(t, 1)

\* utils.py:9: the units of METRIC_RE, ms|s|min|hr|days?|x|k|K|M|million|billion
METRIC_UNITS ==
    {<<"m", "s">>, <<"s">>, <<"m", "i", "n">>, <<"h", "r">>, <<"d", "a", "y">>,
     <<"d", "a", "y", "s">>, <<"x">>, <<"k">>, <<"K">>, <<"M">>,
     <<"m", "i", "l", "l", "i", "o", "n">>, <<"b", "i", "l", "l", "i", "o", "n">>}

\* METRIC_RE.search(b), first alternative: (\d+\.?\d*)%
MetricPercent(b) ==
    \E p \in 2..Len(b) :
        /\ b[p] = "%"
        /\ \/ b[p - 1] \in Digits
           \/ b[p - 1] = "." /\ p >= 3 /\ b[p - 2] \in Digits

\* METRIC_RE.search(b), second alternative: \b\d+\b\s*(?:ms|s|...) ; the digits are a
\* whole word, so the unit cannot follow them directly
MetricUnit(b) ==
    \E j \in 1..(Len(b) - 1) :
        /\ b[j] \in Digits
        /\ b[j + 1] \notin WordChars
        /\ \E i \in 1..j : /\ i = 1 \/ b[i - 1] \notin WordChars
                           /\ \A k \in i..j : b[k] \in Digits
        /\ \E q \in (j + 1)..Len(b) :
              /\ \A k \in (j + 1)..(q - 1) : b[k] \in Whitespace
              /\ \E u \in METRIC_UNITS : MatchAt(b, q, u)

MetricSearch(b) == MetricPercent(b) \/ MetricUnit(b)

TECH_WORDS == {S_python, S_sql, S_react, S_docker, S_pandas, S_tensorflow, S_pytorch,
               S_powerbi, S_tableau, S_fastapi, S_flask, S_airflow}

\* the three counters of score_bullets; a bullet that splits to nothing is skipped
ActionHits(bl, ontology) ==
    LET action_verbs == Range(Get(ontology, "action_verbs", <<>>))
    IN Cardinality({i \in 1..Len(bl) :
           Split(bl[i]) # <<>> /\ Lower(Split(bl[i])[1]) \in action_verbs})
MetricHits(bl) ==
    Cardinality({i \in 1..Len(bl) : Split(bl[i]) # <<>> /\ MetricSearch(bl[i])})
TechHits(bl) ==
    Cardinality({i \in 1..Len(bl) :
        Split(bl[i]) # <<>> /\ \E s \in TECH_WORDS : Contains(Lower(bl[i]), s)})

W_ACTION == 8
W_METRIC == 12
W_TECH == 10
BULLET_CAP == 300

\* the bullet score without the cap at 3.0
BulletScore_uncapped(a, m, t, n) ==
    RoundFloat(3 * 100 * (W_ACTION * a + W_METRIC * m + W_TECH * t), 10 * n)

\* composite = (W_ACTION * a + W_METRIC * m + W_TECH * t) / (10 * n); the score is
\* min(3.0, round(composite * 3.0, 2)) / 3.0 * 3.0, rounded to 2 decimals: the set of
\* the values the float arithmetic can give, one value unless the exact score is a tie
BulletScore(a, m, t, n) ==
    {Min(BULLET_CAP, r) :
        r \in RoundFloat(3 * 100 * (W_ACTION * a + W_METRIC * m + W_TECH * t), 10 * n)}

\* the set of the results score_bullets can return
score_bullets(bullets_list, ontology) ==
    IF bullets_list = <<>> THEN {[score |-> 0, reasons |-> <<MSG_no_bullets>>]}
    ELSE LET a == ActionHits(bullets_list, ontology)
             m == MetricHits(bullets_list)
             t == TechHits(bullets_list)
             n == Max(1, Len(bullets_list))
         IN {[score |-> s,
              reasons |-> (IF 2 * a < n THEN <<MSG_lack_verbs>> ELSE <<>>)
                          \o (IF 2 * m < n THEN <<MSG_few_metrics>> ELSE <<>>)
                          \o (IF 2 * t < n THEN <<MSG_miss_tech>> ELSE <<>>)] :
                s \in BulletScore(a, m, t, n)}

\* a float that is not a whole number of hundredths: num / den hundredths, den > 0
Frac(num, den) == <<num, den>>
FracAdd(x, y) == <<x[1] * y[2] + y[1] * x[2], x[2] * y[2]>>
FracEq(x, y) == x[1] * y[2] = y[1] * x[2]
FracLeq(x, y) == x[1] * y[2] <= y[1] * x[2]

READ_FALLBACK == 40
READ_FULL == 80
GRADE_LOW == 100
GRADE_HIGH == 120
GRADE_SWEET == 110

\* readability_score without the floor at 0: a grade far from 11 goes negative
readability_score_nofloor(g) ==
    IF g = None THEN READ_FALLBACK
    ELSE IF GRADE_LOW <= g[1] /\ g[1] <= GRADE_HIGH THEN READ_FULL
    ELSE READ_FULL - (IF GRADE_SWEET >= g[1] THEN GRADE_SWEET - g[1] ELSE g[1] - GRADE_SWEET)

\* readability_score with the band 10..12 open at both ends
readability_score_strict(g) ==
    IF g = None THEN READ_FALLBACK
    ELSE IF GRADE_LOW < g[1] /\ g[1] < GRADE_HIGH THEN READ_FULL
    ELSE LET d == IF GRADE_SWEET >= g[1] THEN GRADE_SWEET - g[1] ELSE g[1] - GRADE_SWEET
         IN Max(0, READ_FULL - d)

\* g: the oracle's grade in tenths, None when textstat raises
readability_score(g) ==
    IF g = None THEN READ_FALLBACK
    ELSE IF GRADE_LOW <= g[1] /\ g[1] <= GRADE_HIGH THEN READ_FULL
    ELSE LET d == IF GRADE_SWEET >= g[1] THEN GRADE_SWEET - g[1] ELSE g[1] - GRADE_SWEET
         IN Max(0, READ_FULL - d)

CONCISE_NONE == 30
CONCISE_FULL == 70
LONG_WORDS == 28

concision_bonus(txt) ==
    LET bl == bullets(txt)
    IN IF bl = <<>> THEN Frac(CONCISE_NONE, 1)
       ELSE LET long == Cardinality({i \in 1..Len(bl) : Len(Split(bl[i])) > LONG_WORDS})
            IN Frac(Max(0, CONCISE_FULL * Len(bl) - CONCISE_FULL * long), Len(bl))

\* len(re.findall(r"\b\w+<suffix>\b", s)): the words that end in the suffix after at
\* least one more character
SuffixWords(s, suffix) ==
    Cardinality({e \in (Len(suffix) + 1)..Len(s) :
        /\ e = Len(s) \/ s[e + 1] \notin WordChars
        /\ MatchAt(s, e - Len(suffix) + 1, suffix)
        /\ s[e - Len(suffix)] \in WordChars})

TENSE_BASE == 20
TENSE_SPAN == 30

tense_consistency(txt) ==
    LET past == SuffixWords(Lower(txt), S_ed)
        present == SuffixWords(Lower(txt), S_ing)
        total == past + present + 1
    IN Frac(TENSE_BASE * total + TENSE_SPAN * (total - Min(past, present)), total)

ATS_FULL == 150
ATS_MAX_LEN == 18000
ATS_MIN_MARKERS == 5
ATS_PEN_LEN == 40
ATS_PEN_TAB == 30
ATS_PEN_MARKERS == 30
ATS_PEN_HEADERS == 30

\* structure_ats with the length penalty already at ATS_MAX_LEN characters
structure_ats_atmax(txt) ==
    LET long == Len(txt) >= ATS_MAX_LEN
        tabs == Contains(txt, <<"\t">>)
        few == Count(txt, "U+2022") + Count(txt, "-") < ATS_MIN_MARKERS
        bare == ~\E i \in 1..Len(HEADER_HINTS) : Contains(Lower(txt), HEADER_HINTS[i])
        score == ATS_FULL - (IF long THEN ATS_PEN_LEN ELSE 0) - (IF tabs THEN ATS_PEN_TAB ELSE 0)
                 - (IF few THEN ATS_PEN_MARKERS ELSE 0) - (IF bare THEN ATS_PEN_HEADERS ELSE 0)
    IN <<Max(0, score),
         (IF long THEN <<MSG_too_long>> ELSE <<>>) \o (IF tabs THEN <<MSG_tabs>> ELSE <<>>)
         \o (IF few THEN <<MSG_few_bullets>> ELSE <<>>)
         \o (IF bare THEN <<MSG_no_headers>> ELSE <<>>)>>

\* returns the pair (score, reasons)
structure_ats(txt) ==
    LET long == Len(txt) > ATS_MAX_LEN
        tabs == Contains(txt, <<"\t">>)
        few == Count(txt, "U+2022") + Count(txt, "-") < ATS_MIN_MARKERS
        bare == ~\E i \in 1..Len(HEADER_HINTS) : Contains(Lower(txt), HEADER_HINTS[i])
        score == ATS_FULL - (IF long THEN ATS_PEN_LEN ELSE 0) - (IF tabs THEN ATS_PEN_TAB ELSE 0)
                 - (IF few THEN ATS_PEN_MARKERS ELSE 0) - (IF bare THEN ATS_PEN_HEADERS ELSE 0)
    IN <<Max(0, score),
         (IF long THEN <<MSG_too_long>> ELSE <<>>) \o (IF tabs THEN <<MSG_tabs>> ELSE <<>>)
         \o (IF few THEN <<MSG_few_bullets>> ELSE <<>>)
         \o (IF bare THEN <<MSG_no_headers>> ELSE <<>>)>>

PROJ_PROBLEM == 30
PROJ_APPROACH == 30
PROJ_METRIC == 40
PROJ_CAP == 100

projects_evidence(sec_text) ==
    LET low == Lower(sec_text)
    IN Min(PROJ_CAP,
           (IF \E w \in {S_problem, S_challenge, S_goal} : Contains(low, w)
            THEN PROJ_PROBLEM ELSE 0)
           + (IF \E w \in {S_approach, S_method, S_stack, S_tech} : Contains(low, w)
              THEN PROJ_APPROACH ELSE 0)
           + (IF MetricSearch(sec_text) THEN PROJ_METRIC ELSE 0))

HYG_FULL == 50
HYG_PEN_EMAIL == 20
HYG_PEN_PHONE == 10
HYG_PEN_SHORT == 20
HYG_PHONE_DIGITS == 7
HYG_MIN_LEN == 500

hygiene(txt) ==
    LET phone == \E i \in 1..(Len(txt) - HYG_PHONE_DIGITS + 1) :
                     \A k \in i..(i + HYG_PHONE_DIGITS - 1) : txt[k] \in Digits
    IN Max(0, HYG_FULL - (IF ~Contains(txt, <<"@">>) THEN HYG_PEN_EMAIL ELSE 0)
                       - (IF ~phone THEN HYG_PEN_PHONE ELSE 0)
                       - (IF Len(txt) < HYG_MIN_LEN THEN HYG_PEN_SHORT ELSE 0))

SUMMARY_SKILLS == 4

\* role: the Optional[str] target_role
two_line_summary(skill_list, role) ==
    LET lead == IF role = None \/ role[1] = <<>> THEN S_technology ELSE role[1]
        top == IF skill_list # <<>> THEN Join(S_comma, Take(skill_list, SUMMARY_SKILLS))
               ELSE S_impactful_projects
    IN SUMMARY_1 \o lead \o SUMMARY_2 \o top \o SUMMARY_3

\* the set literal canon of jd_compare, in the order it is written
CANON == <<S_python, S_sql, S_powerbi, S_docker, S_airflow, S_react, S_tableau, S_pandas,
           S_numpy, S_tensorflow, S_pytorch>>

\* The order in which a process iterates over the set canon.  A set of str is laid out by
\* the hashes of its members, which CPython randomises per process: the order is fixed
\* within a process and any order may come up in another.  Seed 0 gives the written
\* order, an odd seed a reversed one, and every second seed rotates by half the set.
CanonIteration(seed) ==
    Tuple([i \in 1..Len(CANON) |->
              CANON[(((IF seed % 2 = 1 THEN Len(CANON) + 1 - i ELSE i) - 1
                      + (Len(CANON) \div 2) * (seed \div 2)) % Len(CANON)) + 1]])

JD_MISSING_SHOWN == 8
JD_RECS == 5

RECURSIVE SeqFilterNorm(_, _)
\* [s for s in seq if normalize_token(s) in S]
SeqFilterNorm(seq, S) ==
    IF seq = <<>> THEN <<>>
    ELSE (IF normalize_token(seq[1]) \in S THEN <<seq[1]>> ELSE <<>>)
         \o SeqFilterNorm(Tail(seq), S)

\* the test of utils.py:180 taking a blank job description for an absent one
JdAbsent_blank(jd) == Strip(jd) = <<>>

\* the list of utils.py:186 without the test against the candidate's skills
Missing_any(jd_tokens, have, seed) == Filter(CanonIteration(seed), jd_tokens)

\* the coverage of utils.py:187 rounded to the nearest integer
Coverage_rounded(matched, missing) == RoundHalfEven(100 * matched, Max(1, matched + missing))

\* utils.py:180: if not jd
JdAbsent(jd) == jd = <<>>

\* utils.py:186: the canonical skills the job description names and the candidate lacks,
\* in the order the process iterates over the set
Missing(jd_tokens, have, seed) == Filter(CanonIteration(seed), jd_tokens \ have)

\* utils.py:187: int(100 * len(matched) / max(1, len(matched) + len(missing)))
Coverage(matched, missing) == (100 * matched) \div Max(1, matched + missing)

jd_compare(jd, skill_list, seed) ==
    IF JdAbsent(jd)
    THEN [coverage_pct |-> None, missing_skills |-> <<>>, matched_keywords |-> <<>>,
          recommendations |-> <<>>]
    ELSE LET words == Split(jd)
             jd_tokens == {normalize_token(words[i]) : i \in 1..Len(words)}
             matched == SeqFilterNorm(skill_list, jd_tokens)
             have == {normalize_token(skill_list[i]) : i \in 1..Len(skill_list)}
             missing == Missing(jd_tokens, have, seed)
             coverage == Coverage(Len(matched), Len(missing))
             shown == Take(missing, JD_RECS)
         IN [coverage_pct |-> Some(coverage),
             missing_skills |-> Take(missing, JD_MISSING_SHOWN),
             matched_keywords |-> matched,
             recommendations |-> Tuple([i \in 1..Len(shown) |-> REC_1 \o shown[i] \o REC_2])]

TIP_BULLETS == 3
TIP_SKILL_WORDS == 6

\* the first of the top TIP_BULLETS bullets without a metric: a one-tip list, or none
RECURSIVE BulletTip(_)
BulletTip(bl) ==
    IF bl = <<>> THEN <<>>
    ELSE IF ~MetricSearch(bl[1])
         THEN <<[section |-> TIP_bullet_section, issue |-> TIP_bullet_issue,
                 fix_example |-> Capitalize(Split(bl[1])[1]) \o TIP_bullet_fix]>>
    ELSE BulletTip(Tail(bl))

improvements(section_texts) ==
    LET exp == Get(section_texts, S_experience, <<>>) \o S_newline
               \o Get(section_texts, S_projects, <<>>)
    IN BulletTip(Take(bullets(exp), TIP_BULLETS))
       \o (IF Len(Split(Get(section_texts, S_skills, <<>>))) < TIP_SKILL_WORDS
           THEN <<[section |-> TIP_skills_section, issue |-> TIP_skills_issue,
                   fix_example |-> TIP_skills_fix]>>
           ELSE <<>>)
       \o (IF Get(section_texts, S_projects, <<>>) = <<>>
           THEN <<[section |-> TIP_projects_section, issue |-> TIP_projects_issue,
                   fix_example |-> TIP_projects_fix]>>
           ELSE <<>>)

----------------------------------------------------------------------------
(* Inputs: the str values the requests are built from *)


\* ontology synonym: "Python"
SK_Python == <<"P", "y", "t", "h", "o", "n">>

\* ontology synonym: "SQL"
SK_SQL == <<"S", "Q", "L">>

\* ontology synonym: "Java"
SK_Java == <<"J", "a", "v", "a">>

\* ontology synonym: "C++"
SK_Cpp == <<"C", "+", "+">>

\* ontology synonym: "Pandas"
SK_Pandas == <<"P", "a", "n", "d", "a", "s">>

\* ontology synonym: "NumPy"
SK_NumPy == <<"N", "u", "m", "P", "y">>

\* ontology synonym: "PowerBI"
SK_PowerBI == <<"P", "o", "w", "e", "r", "B", "I">>

\* ontology synonym: "Tableau"
SK_Tableau == <<"T", "a", "b", "l", "e", "a", "u">>

\* ontology synonym: "Docker"
SK_Docker == <<"D", "o", "c", "k", "e", "r">>

\* ontology synonym: "Airflow"
SK_Airflow == <<"A", "i", "r", "f", "l", "o", "w">>

\* ontology synonym: "Git"
SK_Git == <<"G", "i", "t">>

\* ontology action verb: "built"
V_built == <<"b", "u", "i", "l", "t">>

\* ontology action verb: "led"
V_led == <<"l", "e", "d">>

\* ontology action verb: "designed"
V_designed == <<"d", "e", "s", "i", "g", "n", "e", "d">>

\* ontology action verb: "reduced"
V_reduced == <<"r", "e", "d", "u", "c", "e", "d">>

\* bullet: "Helped with reports"
B_none ==
    <<"H", "e", "l", "p", "e", "d", " ", "w", "i", "t", "h", " ", "r", "e", "p", "o", "r",
    "t", "s">>

\* bullet: "Led team of 5 engineers"
B_verb ==
    <<"L", "e", "d", " ", "t", "e", "a", "m", " ", "o", "f", " ", "5", " ", "e", "n", "g",
    "i", "n", "e", "e", "r", "s">>

\* bullet: "Costs fell by 3 million"
B_metric ==
    <<"C", "o", "s", "t", "s", " ", "f", "e", "l", "l", " ", "b", "y", " ", "3", " ", "m",
    "i", "l", "l", "i", "o", "n">>

\* bullet: "Docker images for Airflow"
B_tech ==
    <<"D", "o", "c", "k", "e", "r", " ", "i", "m", "a", "g", "e", "s", " ", "f", "o", "r",
    " ", "A", "i", "r", "f", "l", "o", "w">>

\* bullet: "Reduced load time by 2.5%"
B_verb_metric ==
    <<"R", "e", "d", "u", "c", "e", "d", " ", "l", "o", "a", "d", " ", "t", "i", "m", "e",
    " ", "b", "y", " ", "2", ".", "5", "%">>

\* bullet: "Designed SQL reports"
B_verb_tech ==
    <<"D", "e", "s", "i", "g", "n", "e", "d", " ", "S", "Q", "L", " ", "r", "e", "p", "o",
    "r", "t", "s">>

\* bullet: "Pandas jobs 12 ms faster"
B_metric_tech ==
    <<"P", "a", "n", "d", "a", "s", " ", "j", "o", "b", "s", " ", "1", "2", " ", "m", "s",
    " ", "f", "a", "s", "t", "e", "r">>

\* bullet: "Built Python API cutting latency 40%"
B_all ==
    <<"B", "u", "i", "l", "t", " ", "P", "y", "t", "h", "o", "n", " ", "A", "P", "I", " ",
    "c", "u", "t", "t", "i", "n", "g", " ", "l", "a", "t", "e", "n", "c", "y", " ", "4",
    "0", "%">>

\* bullet: "  "
B_blank == <<" ", " ">>

\* job description word: "and"
W_and == <<"a", "n", "d">>

\* job description word: "Docker,"
W_Docker_comma == <<"D", "o", "c", "k", "e", "r", ",">>

\* job description word: "git"
W_git == <<"g", "i", "t">>

\* job description word: "Kotlin"
W_Kotlin == <<"K", "o", "t", "l", "i", "n">>

\* job description word: "C++"
W_CPP == <<"C", "+", "+">>

\* resume line: "Jane Doe"
L_name == <<"J", "a", "n", "e", " ", "D", "o", "e">>

\* resume line: "jane@mail.io +4915112345678"
L_contact ==
    <<"j", "a", "n", "e", "@", "m", "a", "i", "l", ".", "i", "o", " ", "+", "4", "9", "1",
    "5", "1", "1", "2", "3", "4", "5", "6", "7", "8">>

\* resume line: "analyst who enjoys numbers"
L_about ==
    <<"a", "n", "a", "l", "y", "s", "t", " ", "w", "h", "o", " ", "e", "n", "j", "o", "y",
    "s", " ", "n", "u", "m", "b", "e", "r", "s">>

\* resume line: "Summary"
L_summary_hdr == <<"S", "u", "m", "m", "a", "r", "y">>

\* resume line: "Engineer who designed and tested pipelines while learning fast"
L_profile ==
    <<"E", "n", "g", "i", "n", "e", "e", "r", " ", "w", "h", "o", " ", "d", "e", "s", "i",
    "g", "n", "e", "d", " ", "a", "n", "d", " ", "t", "e", "s", "t", "e", "d", " ", "p",
    "i", "p", "e", "l", "i", "n", "e", "s", " ", "w", "h", "i", "l", "e", " ", "l", "e",
    "a", "r", "n", "i", "n", "g", " ", "f", "a", "s", "t">>

\* resume line: "EXPERIENCE"
L_exp_hdr == <<"E", "X", "P", "E", "R", "I", "E", "N", "C", "E">>

\* resume line: "Work Experience"
L_work_exp_hdr ==
    <<"W", "o", "r", "k", " ", "E", "x", "p", "e", "r", "i", "e", "n", "c", "e">>

\* resume line: "Projects"
L_proj_hdr == <<"P", "r", "o", "j", "e", "c", "t", "s">>

\* resume line: "  Skills:  "
L_skills_hdr == <<" ", " ", "S", "k", "i", "l", "l", "s", ":", " ", " ">>

\* resume line: "education"
L_edu_hdr == <<"e", "d", "u", "c", "a", "t", "i", "o", "n">>

\* resume line: "- Built Python API cutting latency 40%"
L_b_full ==
    <<"-", " ", "B", "u", "i", "l", "t", " ", "P", "y", "t", "h", "o", "n", " ", "A", "P",
    "I", " ", "c", "u", "t", "t", "i", "n", "g", " ", "l", "a", "t", "e", "n", "c", "y",
    " ", "4", "0", "%">>

\* resume line: "\u2022 Led team of 5 engineers"
L_b_verb ==
    <<"U+2022", " ", "L", "e", "d", " ", "t", "e", "a", "m", " ", "o", "f", " ", "5", " ",
    "e", "n", "g", "i", "n", "e", "e", "r", "s">>

\* resume line: "* Reduced costs by 3 million"
L_b_unit ==
    <<"*", " ", "R", "e", "d", "u", "c", "e", "d", " ", "c", "o", "s", "t", "s", " ", "b",
    "y", " ", "3", " ", "m", "i", "l", "l", "i", "o", "n">>

\* resume line: "Docker images for Airflow"
L_b_tech ==
    <<"D", "o", "c", "k", "e", "r", " ", "i", "m", "a", "g", "e", "s", " ", "f", "o", "r",
    " ", "A", "i", "r", "f", "l", "o", "w">>

\* resume line: "- Designed SQL reports"
L_b_verb_tech ==
    <<"-", " ", "D", "e", "s", "i", "g", "n", "e", "d", " ", "S", "Q", "L", " ", "r", "e",
    "p", "o", "r", "t", "s">>

\* resume line: "- Pandas jobs 12 ms faster"
L_b_metric_tech ==
    <<"-", " ", "P", "a", "n", "d", "a", "s", " ", "j", "o", "b", "s", " ", "1", "2", " ",
    "m", "s", " ", "f", "a", "s", "t", "e", "r">>

\* resume line: "- Helped with reports"
L_b_none ==
    <<"-", " ", "H", "e", "l", "p", "e", "d", " ", "w", "i", "t", "h", " ", "r", "e", "p",
    "o", "r", "t", "s">>

\* resume line: "- Cut latency by 120ms"
L_b_glued ==
    <<"-", " ", "C", "u", "t", " ", "l", "a", "t", "e", "n", "c", "y", " ", "b", "y", " ",
    "1", "2", "0", "m", "s">>

\* resume line: "-   Built React dashboard in 10 days"
L_b_spaced ==
    <<"-", " ", " ", " ", "B", "u", "i", "l", "t", " ", "R", "e", "a", "c", "t", " ", "d",
    "a", "s", "h", "b", "o", "a", "r", "d", " ", "i", "n", " ", "1", "0", " ", "d", "a",
    "y", "s">>

\* resume line: "- helped with things"
L_lower ==
    <<"-", " ", "h", "e", "l", "p", "e", "d", " ", "w", "i", "t", "h", " ", "t", "h", "i",
    "n", "g", "s">>

\* resume line: "-"
L_marker_only == <<"-">>

\* resume line: "   Led migration"
L_indented_cap ==
    <<" ", " ", " ", "L", "e", "d", " ", "m", "i", "g", "r", "a", "t", "i", "o", "n">>

\* resume line: "Python, SQL, Docker, Pandas, NumPy, Tableau, PowerBI, Git, Java, Airflow"
L_skill_list ==
    <<"P", "y", "t", "h", "o", "n", ",", " ", "S", "Q", "L", ",", " ", "D", "o", "c", "k",
    "e", "r", ",", " ", "P", "a", "n", "d", "a", "s", ",", " ", "N", "u", "m", "P", "y",
    ",", " ", "T", "a", "b", "l", "e", "a", "u", ",", " ", "P", "o", "w", "e", "r", "B",
    "I", ",", " ", "G", "i", "t", ",", " ", "J", "a", "v", "a", ",", " ", "A", "i", "r",
    "f", "l", "o", "w">>

\* resume line: "Python SQL"
L_skill_short == <<"P", "y", "t", "h", "o", "n", " ", "S", "Q", "L">>

\* resume line: "Goal: faster reports. Approach: caching. Cut load time 30%"
L_proj_story ==
    <<"G", "o", "a", "l", ":", " ", "f", "a", "s", "t", "e", "r", " ", "r", "e", "p", "o",
    "r", "t", "s", ".", " ", "A", "p", "p", "r", "o", "a", "c", "h", ":", " ", "c", "a",
    "c", "h", "i", "n", "g", ".", " ", "C", "u", "t", " ", "l", "o", "a", "d", " ", "t",
    "i", "m", "e", " ", "3", "0", "%">>

\* resume line: "A small website"
L_proj_plain == <<"A", " ", "s", "m", "a", "l", "l", " ", "w", "e", "b", "s", "i", "t", "e">>

\* resume line: "Ten years of experience in data engineering"
L_long_mention ==
    <<"T", "e", "n", " ", "y", "e", "a", "r", "s", " ", "o", "f", " ", "e", "x", "p", "e",
    "r", "i", "e", "n", "c", "e", " ", "i", "n", " ", "d", "a", "t", "a", " ", "e", "n",
    "g", "i", "n", "e", "e", "r", "i", "n", "g">>

\* resume line: "BSc"
L_degree == <<"B", "S", "c">>

\* resume line: "Name\tJane"
L_tabbed == <<"N", "a", "m", "e", "\t", "J", "a", "n", "e">>

\* resume line: ""
L_blank == <<>>

\* resume line: "-----"
L_dashes == <<"-", "-", "-", "-", "-">>

\* job description: " "
JD_blank == <<" ">>

\* job description: "Docker and Airflow required"
JD_docker_airflow ==
    <<"D", "o", "c", "k", "e", "r", " ", "a", "n", "d", " ", "A", "i", "r", "f", "l", "o",
    "w", " ", "r", "e", "q", "u", "i", "r", "e", "d">>

\* job description: "Python, SQL; Docker."
JD_punct ==
    <<"P", "y", "t", "h", "o", "n", ",", " ", "S", "Q", "L", ";", " ", "D", "o", "c", "k",
    "e", "r", ".">>

\* job description: "Kotlin developer"
JD_other == <<"K", "o", "t", "l", "i", "n", " ", "d", "e", "v", "e", "l", "o", "p", "e", "r">>

\* job description: "git python"
JD_git == <<"g", "i", "t", " ", "p", "y", "t", "h", "o", "n">>

\* target role: "data engineering"
ROLE_data ==
    <<"d", "a", "t", "a", " ", "e", "n", "g", "i", "n", "e", "e", "r", "i", "n", "g">>

\* file name: "cv.pdf"
FN_pdf == <<"c", "v", ".", "p", "d", "f">>

\* file name: "CV.PDF"
FN_upper == <<"C", "V", ".", "P", "D", "F">>

\* file name: "cv.docx"
FN_docx == <<"c", "v", ".", "d", "o", "c", "x">>

\* file name: "cv.pdf.txt"
FN_pdf_inside == <<"c", "v", ".", "p", "d", "f", ".", "t", "x", "t">>

\* file name: ""
FN_empty == <<>>

\* decoder error: "cannot open broken document"
ERR_broken ==
    <<"c", "a", "n", "n", "o", "t", " ", "o", "p", "e", "n", " ", "b", "r", "o", "k", "e",
    "n", " ", "d", "o", "c", "u", "m", "e", "n", "t">>

----------------------------------------------------------------------------
(* Inputs: ontologies, resume texts, oracle answers, requests *)

Pad(c, n) == Tuple([i \in 1..n |-> c])
Text(lines) == Join(S_newline, lines)

\* ontology.json as read_ontology returns it
OntologyFull ==
    [skills |-> [languages |-> <<SK_Python, SK_SQL, SK_Java, SK_Cpp>>,
                 data |-> <<SK_Pandas, SK_NumPy, SK_PowerBI, SK_Tableau>>,
                 tools |-> <<SK_Docker, SK_Airflow, SK_Git, SK_Python>>],
     action_verbs |-> <<V_built, V_led, V_designed, V_reduced>>]
\* a file without the two keys
OntologyBare == [version |-> <<"1">>]
Ontologies == {OntologyFull, OntologyBare}

MaxSeed == 1
HashSeeds == 0..MaxSeed

T_empty == <<>>
T_plain == Text(<<L_name, L_contact, L_about>>)
T_full ==
    Text(<<L_name, L_contact, L_summary_hdr, L_profile, L_exp_hdr, L_b_full, L_b_verb,
           L_b_unit, L_b_verb_tech, L_proj_hdr, L_b_spaced, L_proj_story, L_skills_hdr,
           L_skill_list>>)
T_weak ==
    Text(<<L_work_exp_hdr, L_b_none, L_lower, L_b_glued, L_b_tech, L_edu_hdr, L_degree,
           L_skills_hdr, L_skill_short, L_proj_hdr, L_blank>>)
T_tabs == Text(<<L_tabbed, L_dashes, L_long_mention, L_marker_only, L_indented_cap>>)
T_strong ==
    Text(<<L_contact, L_exp_hdr, L_b_full, L_b_full, L_dashes, L_proj_hdr, L_proj_story,
           L_skills_hdr, L_skill_list, Pad("q", HYG_MIN_LEN)>>)
T_long == Text(<<T_full, Pad("q", ATS_MAX_LEN)>>)
Texts == {T_empty, T_plain, T_full, T_weak, T_tabs, T_strong}

\* tenths of a grade: below, at and above each edge of the formula, and a failure
Grades == {None} \cup {Some(g) : g \in {-34, 0, 29, 30, 31, 99, 100, 110, 120, 121, 189,
                                        190, 191, 400}}

\* partial_ratio answers 0 for every key, or the given score for the given keys
FuzzyNone == <<>>
FuzzyOf(keys, score) == [k \in keys |-> score]
FuzzyKeys == {normalize_token(s) : s \in Synonyms(OntologyFull)}
Fuzzies == {FuzzyNone, FuzzyOf(FuzzyKeys, 90), FuzzyOf(FuzzyKeys, 91),
            FuzzyOf({normalize_token(SK_PowerBI), normalize_token(SK_Cpp)}, 100)}

JobDescriptions == {None, Some(<<>>), Some(JD_blank), Some(JD_docker_airflow),
                    Some(JD_punct), Some(JD_other)}
Roles == {None, Some(<<>>), Some(ROLE_data)}
FileNames == {FN_pdf, FN_upper, FN_docx, FN_pdf_inside, FN_empty}

Decoded(t) == [ok |-> TRUE, text |-> t]
DecodeFailure == [ok |-> FALSE, error |-> ERR_broken]

Request(fn, p, role, jd, g, fz) ==
    [file_name |-> fn, pdf |-> p, target_role |-> role, job_description |-> jd,
     grade |-> g, fuzzy |-> fz]

\* every input varied against a plain request, every text under every grade, and a
\* text longer than ATS_MAX_LEN
Requests ==
    {Request(fn, p, None, None, Some(110), FuzzyNone) :
        fn \in FileNames, p \in {Decoded(T_full), DecodeFailure}}
    \cup {Request(FN_pdf, Decoded(t), None, None, g, FuzzyNone) : t \in Texts, g \in Grades}
    \cup {Request(FN_pdf, Decoded(t), None, None, Some(110), fz) : t \in Texts, fz \in Fuzzies}
    \cup {Request(FN_pdf, Decoded(T_long), None, Some(JD_punct), g, FuzzyNone) :
            g \in {None, Some(110)}}
    \cup {Request(FN_pdf, Decoded(t), role, jd, None, FuzzyNone) :
            t \in {T_empty, T_full}, role \in Roles, jd \in JobDescriptions}

----------------------------------------------------------------------------
(* Inputs of the specifications of single functions *)

\* all sequences over the set S of length 0..n
RECURSIVE SeqsUpTo(_, _)
SeqsUpTo(S, n) ==
    IF n = 0 THEN {<<>>}
    ELSE LET shorter == SeqsUpTo(S, n - 1)
         IN shorter \cup {Append(q, x) : q \in {r \in shorter : Len(r) = n - 1}, x \in S}

\* detect_sections: headers in three spellings, one of exactly HEADER_MAX_LEN characters,
\* a line one character longer that holds a hint, content, and an empty line
MaxLines == 3
SegHeaderAtMax == S_projects \o Pad("q", HEADER_MAX_LEN - Len(S_projects))
SegLineOverMax == S_projects \o Pad("q", HEADER_MAX_LEN + 1 - Len(S_projects))
SegLines == {L_exp_hdr, L_work_exp_hdr, L_skills_hdr, SegHeaderAtMax, SegLineOverMax,
             L_b_full, L_blank}
SegTexts == {Text(ls) : ls \in SeqsUpTo(SegLines, MaxLines)}

\* structure_ats: a header or none, a tab or none, some dots with or without dashes, and
\* filler up to a length below, at and above ATS_MAX_LEN
MaxDots == 3
MaxDashes == 3
\* the longest is the text of 20000 characters
AtsLengths == {0, ATS_MAX_LEN, ATS_MAX_LEN + 1, ATS_MAX_LEN + 2000}
AtsText(header, tabs, dots, dashes, length) ==
    LET body == header \o Pad("\t", tabs) \o Pad("U+2022", dots) \o Pad("-", dashes)
    IN body \o Pad("q", length - Len(body))
AtsTexts ==
    {AtsText(header, tabs, dots, dashes, length) :
        header \in {<<>>, TIP_skills_section \o S_newline}, tabs \in {0, 1},
        dots \in 0..MaxDots, dashes \in {0, MaxDashes}, length \in AtsLengths}

\* score_bullets: one bullet for every combination of action verb, metric and technology,
\* and one that splits to nothing; a list takes them in this order.  Seven bullets are
\* the fewest with a score that is no whole number of hundredths.
MaxBullets == 7
\* the longest list scored with an ontology that has no action verbs
MaxBareBullets == 3
BulletKinds ==
    <<[str |-> B_none, verb |-> FALSE, metric |-> FALSE, tech |-> FALSE],
      [str |-> B_verb, verb |-> TRUE, metric |-> FALSE, tech |-> FALSE],
      [str |-> B_metric, verb |-> FALSE, metric |-> TRUE, tech |-> FALSE],
      [str |-> B_tech, verb |-> FALSE, metric |-> FALSE, tech |-> TRUE],
      [str |-> B_verb_metric, verb |-> TRUE, metric |-> TRUE, tech |-> FALSE],
      [str |-> B_verb_tech, verb |-> TRUE, metric |-> FALSE, tech |-> TRUE],
      [str |-> B_metric_tech, verb |-> FALSE, metric |-> TRUE, tech |-> TRUE],
      [str |-> B_all, verb |-> TRUE, metric |-> TRUE, tech |-> TRUE],
      [str |-> B_blank, verb |-> FALSE, metric |-> FALSE, tech |-> FALSE]>>
\* the non-decreasing sequences over 1..k of length 0..n
RECURSIVE Ascending(_, _)
Ascending(k, n) ==
    IF n = 0 THEN {<<>>}
    ELSE LET shorter == Ascending(k, n - 1)
         IN shorter \cup UNION {{Append(q, x) : x \in (IF q = <<>> THEN 1 ELSE q[Len(q)])..k} :
                                   q \in {r \in shorter : Len(r) = n - 1}}
BulletListsUpTo(n) ==
    {Tuple([i \in 1..Len(ks) |-> BulletKinds[ks[i]].str]) : ks \in Ascending(Len(BulletKinds), n)}

\* jd_compare: the detected skills, and job descriptions that mention the first n members
\* of the canonical set, or any of four of them, or words outside it
JdSkillLists == {Sorted(S) : S \in SUBSET {SK_Python, SK_SQL, SK_Docker, SK_Git, SK_Cpp}}
JdText(words) == Join(<<" ">>, words)
JdWordLists ==
    {SubSeq(CANON, 1, n) : n \in 0..Len(CANON)}
    \cup {Sorted(S) : S \in SUBSET {S_python, S_sql, S_docker, S_numpy}}
    \cup {<<W_Docker_comma, W_and, W_git>>, <<W_Kotlin, W_CPP, SK_Python>>,
          <<SK_SQL, SK_SQL, W_git, S_react>>}
JdInputs == {None, Some(<<>>), Some(JD_blank)} \cup {Some(JdText(ws)) : ws \in JdWordLists \ {<<>>}}

\* determinism: requests whose answer does and does not read the set canon
DetRequests ==
    {Request(FN_pdf, Decoded(t), None, jd, Some(110), FuzzyNone) :
        t \in {T_plain, T_weak}, jd \in {None, Some(JD_docker_airflow), Some(JD_punct)}}
    \cup {Request(FN_docx, Decoded(T_plain), None, None, None, FuzzyNone),
          Request(FN_pdf, DecodeFailure, None, None, None, FuzzyNone)}

----------------------------------------------------------------------------
(* backend/main.py: the /analyze handler, one action per statement *)

\* a request arrives: the upload, the form fields, and what the oracles will answer
ReceiveFrom(requests) ==
    /\ pc = "idle"
    /\ \E r \in requests :
          /\ file_name' = r.file_name
          /\ pdf' = r.pdf
          /\ target_role' = r.target_role
          /\ job_description' = r.job_description
          /\ grade' = r.grade
          /\ fuzzy' = r.fuzzy
    /\ pc' = "check"
    /\ UNCHANGED <<ONTOLOGY, hash_seed, locals, response, status, decoded, engine_steps,
                   last_served>>

\* the check of main.py:43 without lower(): an upper-case extension is turned away
CheckFilename_case ==
    /\ pc = "check"
    /\ IF ~EndsWith(file_name, S_pdf)
       THEN /\ status' = 400
            /\ response' = [detail |-> MSG_upload_pdf]
            /\ pc' = "done"
       ELSE /\ pc' = "parse"
            /\ UNCHANGED <<status, response>>
    /\ UNCHANGED <<ONTOLOGY, hash_seed, inputs, locals, decoded, engine_steps, last_served>>

\* main.py:43-44
CheckFilename ==
    /\ pc = "check"
    /\ IF ~EndsWith(Lower(file_name), S_pdf)
       THEN /\ status' = 400
            /\ response' = [detail |-> MSG_upload_pdf]
            /\ pc' = "done"
       ELSE /\ pc' = "parse"
            /\ UNCHANGED <<status, response>>
    /\ UNCHANGED <<ONTOLOGY, hash_seed, inputs, locals, decoded, engine_steps, last_served>>

\* main.py:45-51
ParsePdf ==
    /\ pc = "parse"
    /\ decoded' = decoded + 1
    /\ IF pdf.ok
       THEN /\ text' = pdf.text
            /\ pc' = "detect_sections"
            /\ UNCHANGED <<status, response>>
       ELSE /\ status' = 422
            /\ response' = [detail |-> MSG_parse_failed \o pdf.error]
            /\ pc' = "done"
            /\ UNCHANGED text
    /\ UNCHANGED <<ONTOLOGY, hash_seed, inputs, sections, skills, blts, bullets_score,
                   clarity, ats, proj_score, hygiene_score, rubric, tips, summary, jdcomp,
                   engine_steps, last_served>>

\* what every engine statement leaves alone
EngineStep(from, to) ==
    /\ pc = from
    /\ pc' = to
    /\ engine_steps' = engine_steps + 1
    /\ UNCHANGED <<ONTOLOGY, hash_seed, inputs, response, status, decoded, last_served>>

\* main.py:53-54
DetectSections ==
    /\ EngineStep("detect_sections", "extract_skills")
    /\ sections' = detect_sections(text)
    /\ UNCHANGED <<text, skills, blts, bullets_score, clarity, ats, proj_score,
                   hygiene_score, rubric, tips, summary, jdcomp>>

\* main.py:57
ExtractSkills ==
    /\ EngineStep("extract_skills", "bullets")
    /\ skills' = extract_skills(text, ONTOLOGY, fuzzy)
    /\ UNCHANGED <<text, sections, blts, bullets_score, clarity, ats, proj_score,
                   hygiene_score, rubric, tips, summary, jdcomp>>

\* main.py:58
Bullets ==
    /\ EngineStep("bullets", "score_bullets")
    /\ blts' = bullets(Get(sections, S_experience, <<>>) \o S_newline
                       \o Get(sections, S_projects, <<>>))
    /\ UNCHANGED <<text, sections, skills, bullets_score, clarity, ats, proj_score,
                   hygiene_score, rubric, tips, summary, jdcomp>>

\* main.py:59
ScoreBullets ==
    /\ EngineStep("score_bullets", "clarity")
    /\ bullets_score' \in score_bullets(blts, ONTOLOGY)
    /\ UNCHANGED <<text, sections, skills, blts, clarity, ats, proj_score,
                   hygiene_score, rubric, tips, summary, jdcomp>>

\* main.py:60
Clarity ==
    /\ EngineStep("clarity", "structure_ats")
    /\ clarity' = FracAdd(FracAdd(Frac(readability_score(grade), 1), concision_bonus(text)),
                          tense_consistency(text))
    /\ UNCHANGED <<text, sections, skills, blts, bullets_score, ats, proj_score,
                   hygiene_score, rubric, tips, summary, jdcomp>>

\* main.py:61
StructureAts ==
    /\ EngineStep("structure_ats", "projects_evidence")
    /\ ats' = structure_ats(text)
    /\ UNCHANGED <<text, sections, skills, blts, bullets_score, clarity, proj_score,
                   hygiene_score, rubric, tips, summary, jdcomp>>

\* main.py:62
ProjectsEvidence ==
    /\ EngineStep("projects_evidence", "hygiene")
    /\ proj_score' = projects_evidence(Get(sections, S_projects, <<>>))
    /\ UNCHANGED <<text, sections, skills, blts, bullets_score, clarity, ats,
                   hygiene_score, rubric, tips, summary, jdcomp>>

\* main.py:63
Hygiene ==
    /\ EngineStep("hygiene", "rubric")
    /\ hygiene_score' = hygiene(text)
    /\ UNCHANGED <<text, sections, skills, blts, bullets_score, clarity, ats, proj_score,
                   rubric, tips, summary, jdcomp>>

CAP_IMPACT == 300
CAP_KEYWORD == 200
CAP_CLARITY == 200
CAP_ATS == 150
CAP_PROJECTS == 100
CAP_HYGIENE == 50
KEYWORD_SKILLS == 10
KEYWORD_FULL == 200

\* main.py:66-74
RubricOf(bscore, skill_list, clar, ats_pair, proj, hyg) ==
    LET impact_bullets == Min(CAP_IMPACT, bscore.score)
        keyword_alignment ==
            Min(CAP_KEYWORD, RoundHalfEven(KEYWORD_FULL * Len(Take(skill_list, KEYWORD_SKILLS)),
                                           KEYWORD_SKILLS))
        clarity_tone == Min(CAP_CLARITY, RoundHalfEven(clar[1], clar[2]))
        structure_ats_score == Min(CAP_ATS, ats_pair[1])
        projects_sub == Min(CAP_PROJECTS, proj)
        hygiene_sub == Min(CAP_HYGIENE, hyg)
    IN [impact_bullets |-> impact_bullets,
        keyword_alignment |-> keyword_alignment,
        clarity_tone |-> clarity_tone,
        structure_ats_score |-> structure_ats_score,
        projects_sub |-> projects_sub,
        hygiene_sub |-> hygiene_sub,
        overall |-> impact_bullets + keyword_alignment + clarity_tone
                    + structure_ats_score + projects_sub + hygiene_sub]

Rubric ==
    /\ EngineStep("rubric", "improvements")
    /\ rubric' = RubricOf(bullets_score, skills, clarity, ats, proj_score, hygiene_score)
    /\ UNCHANGED <<text, sections, skills, blts, bullets_score, clarity, ats, proj_score,
                   hygiene_score, tips, summary, jdcomp>>

\* main.py:77-79
TipsOf(section_texts, ats_pair) ==
    improvements(section_texts)
    \o (IF ats_pair[2] # <<>>
        THEN <<[section |-> TIP_ats_section, issue |-> Join(S_semicolon, ats_pair[2]),
                fix_example |-> TIP_ats_fix]>>
        ELSE <<>>)

Improvements ==
    /\ EngineStep("improvements", "summary")
    /\ tips' = TipsOf(sections, ats)
    /\ UNCHANGED <<text, sections, skills, blts, bullets_score, clarity, ats, proj_score,
                   hygiene_score, rubric, summary, jdcomp>>

\* main.py:82
Summary ==
    /\ EngineStep("summary", "jd_compare")
    /\ summary' = two_line_summary(skills, target_role)
    /\ UNCHANGED <<text, sections, skills, blts, bullets_score, clarity, ats, proj_score,
                   hygiene_score, rubric, tips, jdcomp>>

\* main.py:83
JdCompare ==
    /\ EngineStep("jd_compare", "respond")
    /\ jdcomp' = jd_compare(IF job_description = None THEN <<>> ELSE job_description[1],
                            skills, hash_seed)
    /\ UNCHANGED <<text, sections, skills, blts, bullets_score, clarity, ats, proj_score,
                   hygiene_score, rubric, tips, summary>>

BULLETS_SHOWN == 10

\* main.py:85-102
ResponseOf(rub, skill_list, bl, tip_list, summ, jdc) ==
    [overall_score |-> rub.overall,
     subscores |-> [impact_bullets |-> rub.impact_bullets,
                    skill_alignment |-> rub.keyword_alignment,
                    clarity_tone |-> rub.clarity_tone,
                    structure_ats |-> rub.structure_ats_score,
                    projects |-> rub.projects_sub,
                    hygiene |-> rub.hygiene_sub],
     highlights |-> [skills_detected |-> skill_list,
                     bullets_analyzed |-> Take(bl, BULLETS_SHOWN)],
     improvements |-> tip_list,
     two_line_summary |-> summ,
     jd_comparison |-> jdc]

\* main.py:85-103
Respond ==
    /\ pc = "respond"
    /\ response' = ResponseOf(rubric, skills, blts, tips, summary, jdcomp)
    /\ status' = 200
    /\ pc' = "done"
    /\ UNCHANGED <<ONTOLOGY, hash_seed, inputs, locals, decoded, engine_steps, last_served>>

\* the reply is sent and the call frame is gone
FinishWith(log) ==
    /\ pc = "done"
    /\ pc' = "idle"
    /\ last_served' = log
    /\ file_name' = None /\ pdf' = None /\ target_role' = None
    /\ job_description' = None /\ grade' = None /\ fuzzy' = None
    /\ text' = None /\ sections' = None /\ skills' = None /\ blts' = None
    /\ bullets_score' = None /\ clarity' = None /\ ats' = None /\ proj_score' = None
    /\ hygiene_score' = None /\ rubric' = None /\ tips' = None /\ summary' = None
    /\ jdcomp' = None
    /\ response' = None
    /\ status' = 0
    /\ decoded' = 0
    /\ engine_steps' = 0
    /\ UNCHANGED <<ONTOLOGY, hash_seed>>

Finish == FinishWith(last_served)

\* the same, remembering a completed analysis
FinishLogged ==
    FinishWith(IF status = 200 THEN Some([inputs |-> inputs, response |-> response])
               ELSE last_served)

----------------------------------------------------------------------------
(* Specifications *)

\* no request is open: no input, and no local of analyze, has a value
NoRequest ==
    /\ file_name = None /\ pdf = None /\ target_role = None
    /\ job_description = None /\ grade = None /\ fuzzy = None
NoLocals ==
    /\ text = None /\ sections = None /\ skills = None /\ blts = None
    /\ bullets_score = None /\ clarity = None /\ ats = None /\ proj_score = None
    /\ hygiene_score = None /\ rubric = None /\ tips = None /\ summary = None
    /\ jdcomp = None

Idle ==
    /\ pc = "idle"
    /\ NoRequest
    /\ NoLocals
    /\ response = None
    /\ status = 0
    /\ decoded = 0
    /\ engine_steps = 0
    /\ last_served = None

\* the process has started and loaded the ontology; no request is open
Init ==
    /\ ONTOLOGY \in Ontologies
    /\ hash_seed \in HashSeeds
    /\ Idle

Receive == ReceiveFrom(Requests)

Next ==
    \/ Receive
    \/ CheckFilename
    \/ ParsePdf
    \/ DetectSections
    \/ ExtractSkills
    \/ Bullets
    \/ ScoreBullets
    \/ Clarity
    \/ StructureAts
    \/ ProjectsEvidence
    \/ Hygiene
    \/ Rubric
    \/ Improvements
    \/ Summary
    \/ JdCompare
    \/ Respond
    \/ Finish

Spec == Init /\ [][Next]_vars

\* the process restarts: str hashes are randomised anew, the same ontology file is loaded
Restart ==
    /\ pc = "idle"
    /\ hash_seed' \in HashSeeds
    /\ UNCHANGED <<ONTOLOGY, pc, inputs, locals, response, status, decoded, engine_steps,
                   last_served>>

ReceiveDet == ReceiveFrom(DetRequests)

NextDet ==
    \/ ReceiveDet
    \/ CheckFilename
    \/ ParsePdf
    \/ DetectSections
    \/ ExtractSkills
    \/ Bullets
    \/ ScoreBullets
    \/ Clarity
    \/ StructureAts
    \/ ProjectsEvidence
    \/ Hygiene
    \/ Rubric
    \/ Improvements
    \/ Summary
    \/ JdCompare
    \/ Respond
    \/ FinishLogged
    \/ Restart

\* requests served one after another by a process that may restart in between
SpecDet == Init /\ [][NextDet]_vars

\* a single function applied to its arguments: the request is at the statement that
\* calls it, and the locals the call reads hold the arguments
AtCall(at) ==
    /\ pc = at
    /\ response = None
    /\ status = 0
    /\ decoded = 1
    /\ engine_steps = 0
    /\ last_served = None
    /\ file_name = FN_pdf /\ target_role = None /\ grade = None /\ fuzzy = FuzzyNone
    /\ bullets_score = None /\ clarity = None /\ ats = None /\ proj_score = None
    /\ hygiene_score = None /\ rubric = None /\ tips = None /\ summary = None
    /\ jdcomp = None /\ sections = None

InitSeg ==
    /\ AtCall("detect_sections")
    /\ ONTOLOGY = OntologyFull
    /\ hash_seed = 0
    /\ text \in SegTexts
    /\ pdf = Decoded(text)
    /\ job_description = None /\ skills = None /\ blts = None
SpecSeg == InitSeg /\ [][DetectSections]_vars

InitAts ==
    /\ AtCall("structure_ats")
    /\ ONTOLOGY = OntologyFull
    /\ hash_seed = 0
    /\ text \in AtsTexts
    /\ pdf = Decoded(text)
    /\ job_description = None /\ skills = None /\ blts = None
SpecAts == InitAts /\ [][StructureAts]_vars

InitBullets ==
    /\ AtCall("score_bullets")
    /\ ONTOLOGY \in Ontologies
    /\ hash_seed = 0
    /\ blts \in BulletListsUpTo(IF "action_verbs" \in DOMAIN ONTOLOGY THEN MaxBullets
                                  ELSE MaxBareBullets)
    /\ text = None /\ pdf = None
    /\ job_description = None /\ skills = None
SpecBullets == InitBullets /\ [][ScoreBullets]_vars

InitJd ==
    /\ AtCall("jd_compare")
    /\ ONTOLOGY = OntologyFull
    /\ hash_seed \in HashSeeds
    /\ skills \in JdSkillLists
    /\ job_description \in JdInputs
    /\ text = None /\ pdf = None /\ blts = None
SpecJd == InitJd /\ [][JdCompare]_vars

----------------------------------------------------------------------------
(* The claims.  Scores are in hundredths: 3.0 is 300, 10.0 is 1000. *)

ResultFields == {"overall_score", "subscores", "highlights", "improvements",
                 "two_line_summary", "jd_comparison"}
NameIsPdf == EndsWith(Lower(file_name), S_pdf)

\* C1: in every response of a completed analysis each subscore lies in its documented
\* range (impact_bullets 0..3.0, skill_alignment 0..2.0, clarity_tone 0..2.0,
\* structure_ats 0..1.5, projects 0..1.0, hygiene 0..0.5), overall_score lies in 0..10.0,
\* and overall_score is the sum of the six subscores to two decimals.
C1_ScoresBounded ==
    status = 200 =>
        LET sub == response.subscores
        IN /\ sub.impact_bullets \in 0..300
           /\ sub.skill_alignment \in 0..200
           /\ sub.clarity_tone \in 0..200
           /\ sub.structure_ats \in 0..150
           /\ sub.projects \in 0..100
           /\ sub.hygiene \in 0..50
           /\ response.overall_score \in 0..1000
           /\ response.overall_score =
                 sub.impact_bullets + sub.skill_alignment + sub.clarity_tone
                 + sub.structure_ats + sub.projects + sub.hygiene

\* a completed analysis with the bullet score at its cap, and one whose oracle's grade is
\* so far from 11 that only the floor keeps the readability term from going negative
C1_Witness ==
    /\ status = 200
    /\ response.subscores.impact_bullets = 300
    /\ response.overall_score > 800
C1_WitnessFloor ==
    /\ status = 200
    /\ grade = Some(400)
    /\ FracEq(clarity, FracAdd(concision_bonus(text), tense_consistency(text)))

\* C6: a request ends in one of three outcomes, decided by the file name and the decoder:
\* 400 with nothing decoded and no engine step when the name does not end in .pdf; 422
\* with no engine step when the decoder fails; else a result with all six fields after
\* every engine step, however sparse the input.  Nothing is returned before the end.
C6_ThreeOutcomes ==
    /\ status \in {0, 200, 400, 422}
    /\ (pc = "done") <=> (status # 0)
    /\ status = 0 => response = None
    /\ pc = "done" =>
          /\ ~NameIsPdf =>
                /\ status = 400
                /\ response = [detail |-> MSG_upload_pdf]
                /\ decoded = 0
                /\ engine_steps = 0
          /\ NameIsPdf /\ ~pdf.ok =>
                /\ status = 422
                /\ response = [detail |-> MSG_parse_failed \o pdf.error]
                /\ decoded = 1
                /\ engine_steps = 0
          /\ NameIsPdf /\ pdf.ok =>
                /\ status = 200
                /\ DOMAIN response = ResultFields
                /\ decoded = 1
                /\ engine_steps = 12
    /\ engine_steps > 0 => NameIsPdf /\ pdf.ok /\ decoded = 1
    /\ decoded > 0 => NameIsPdf

\* the three outcomes: an empty document analysed in full, and one with an upper-case
\* extension; a .docx turned away; a decoder failure
C6_WitnessSparse ==
    /\ status = 200
    /\ pdf.text = <<>>
    /\ job_description = None
    /\ DOMAIN sections = {}
    /\ blts = <<>>
C6_WitnessUpper == status = 200 /\ file_name = FN_upper
C6_WitnessRejected == status = 400 /\ file_name = FN_docx /\ pdf.ok
C6_WitnessUnparsable == status = 422 /\ file_name = FN_pdf

\* the readability term the claim C7 states, in hundredths, for the grade in tenths
C7_Term ==
    IF grade = None THEN 40
    ELSE IF 100 <= grade[1] /\ grade[1] <= 120 THEN 80
    ELSE Max(0, 80 - (IF grade[1] >= 110 THEN grade[1] - 110 ELSE 110 - grade[1]))
C7_Clarity == FracAdd(FracAdd(Frac(C7_Term, 1), concision_bonus(text)), tense_consistency(text))

\* C7: the readability term of the clarity score is 0.4 when the oracle fails, 0.8 for a
\* grade g in 10..12 and max(0, 0.8 - 0.1 * |11 - g|) for any other; an oracle failure
\* does not end the analysis, which returns a full result.
C7_ReadabilityTerm ==
    /\ pc = "structure_ats" => FracEq(clarity, C7_Clarity)
    /\ status = 200 =>
          /\ response.subscores.clarity_tone =
                Min(200, RoundHalfEven(C7_Clarity[1], C7_Clarity[2]))
          /\ DOMAIN response = ResultFields
    /\ pc = "done" /\ grade = None /\ NameIsPdf /\ pdf.ok => status = 200

\* an analysis completed after the oracle failed, and one at the edge of the band
C7_WitnessFailure ==
    /\ status = 200
    /\ grade = None
    /\ text # <<>>
    /\ FracEq(clarity, FracAdd(FracAdd(Frac(40, 1), concision_bonus(text)),
                               tense_consistency(text)))
C7_WitnessBand == status = 200 /\ grade = Some(100) /\ text # <<>>

\* what the claims on the job-description comparison speak of, from the arguments of
\* the call: the tokens of the description, the matched skills, and the canonical skills
\* the description names and the candidate lacks
JdSupplied == job_description # None /\ job_description # Some(<<>>)
JdTokens == {normalize_token(w) : w \in Range(Split(job_description[1]))}
JdMatched == {i \in 1..Len(skills) : normalize_token(skills[i]) \in JdTokens}
JdCanonical == {S_python, S_sql, S_powerbi, S_docker, S_airflow, S_react, S_tableau,
                S_pandas, S_numpy, S_tensorflow, S_pytorch}
JdMissing == {c \in JdCanonical :
                 c \in JdTokens /\ c \notin {normalize_token(s) : s \in Range(skills)}}
NoDuplicates(seq) == \A i, j \in 1..Len(seq) : seq[i] = seq[j] => i = j
Recommendation(skill) == REC_1 \o skill \o REC_2

\* C3 as stated: coverage_pct is 100 * |matched| / max(1, |matched| + |missing|) rounded
\* to the nearest integer.
C3_CoverageRounded ==
    pc = "respond" /\ JdSupplied =>
        jdcomp.coverage_pct =
            Some(RoundHalfEven(100 * Cardinality(JdMatched),
                               Max(1, Cardinality(JdMatched) + Cardinality(JdMissing))))

\* C3 as amended: coverage_pct is 100 * |matched| / max(1, |matched| + |missing|) with
\* the fraction dropped (truncated, not rounded to the nearest), where missing counts
\* every missing canonical skill; it is 0 when both are empty and 50 when one skill is
\* matched and one is missing.
C3_CoverageTruncated ==
    pc = "respond" /\ JdSupplied =>
        LET m == Cardinality(JdMatched)
            k == Cardinality(JdMissing)
            pct == jdcomp.coverage_pct[1]
        IN /\ jdcomp.coverage_pct = Some(pct)
           /\ pct * Max(1, m + k) <= 100 * m
           /\ 100 * m < (pct + 1) * Max(1, m + k)
           /\ (m = 0 /\ k = 0 => pct = 0)
           /\ (m = 1 /\ k = 1 => pct = 50)

\* two skills matched and one missing: 66, where rounding gives 67
C3_Witness ==
    /\ pc = "respond"
    /\ JdSupplied
    /\ Cardinality(JdMatched) = 2
    /\ Cardinality(JdMissing) = 1
    /\ jdcomp.coverage_pct = Some(66)

\* C4 as stated: missing_skills holds exactly the canonical skills that the job
\* description names and the candidate lacks, each of them, and recommendations holds
\* one sentence per missing skill, at most 5.
C4_MissingExact ==
    pc = "respond" /\ JdSupplied =>
        /\ Range(jdcomp.missing_skills) = JdMissing
        /\ Len(jdcomp.recommendations) = Min(5, Cardinality(JdMissing))

\* C4 as amended: missing_skills lists, each once, canonical skills that the job
\* description names and the candidate lacks and nothing else: all of them when there
\* are at most 8, and 8 of them when there are more; recommendations holds the sentence
\* for each of the first 5 entries of missing_skills, in their order.
C4_MissingCapped ==
    pc = "respond" /\ JdSupplied =>
        LET listed == jdcomp.missing_skills
            recs == jdcomp.recommendations
        IN /\ Range(listed) \subseteq JdMissing
           /\ NoDuplicates(listed)
           /\ Len(listed) = Min(8, Cardinality(JdMissing))
           /\ (Cardinality(JdMissing) <= 8 => Range(listed) = JdMissing)
           /\ Len(recs) = Min(5, Cardinality(JdMissing))
           /\ \A i \in 1..Len(recs) : recs[i] = Recommendation(listed[i])

\* ten canonical skills missing, eight of them listed, five recommended
C4_Witness ==
    /\ pc = "respond"
    /\ JdSupplied
    /\ Cardinality(JdMissing) = 10
    /\ Len(jdcomp.missing_skills) = 8
    /\ Len(jdcomp.recommendations) = 5
    /\ JdMatched # {}

\* C5: without a job description (absent, or the empty string) the comparison has
\* coverage_pct null and its three lists empty; with one, blank or not, coverage_pct is
\* an integer in 0..100 and never null.
C5_NullOnlyWithoutJd ==
    pc = "respond" =>
        IF JdSupplied
        THEN /\ jdcomp.coverage_pct # None
             /\ Len(jdcomp.coverage_pct) = 1
             /\ jdcomp.coverage_pct[1] \in 0..100
        ELSE jdcomp = [coverage_pct |-> None, missing_skills |-> <<>>,
                       matched_keywords |-> <<>>, recommendations |-> <<>>]

\* a job description that names none of the candidate's skills: coverage 0, not null;
\* and a blank one
C5_WitnessZero ==
    /\ pc = "respond"
    /\ JdSupplied
    /\ skills # <<>>
    /\ JdMissing # {}
    /\ jdcomp.coverage_pct = Some(0)
C5_WitnessBlank ==
    /\ pc = "respond"
    /\ job_description = Some(JD_blank)
    /\ jdcomp.coverage_pct = Some(0)
C5_WitnessAbsent == pc = "respond" /\ job_description = None /\ skills # <<>>

\* C2: two analyses of the same request, by the same process or by two, return the same
\* response.
C2_Deterministic ==
    pc = "done" /\ status = 200 /\ last_served # None /\ last_served[1].inputs = inputs =>
        last_served[1].response = response

\* the same request served twice
C2_ServedTwice ==
    /\ pc = "done"
    /\ status = 200
    /\ last_served # None
    /\ last_served[1].inputs = inputs
    /\ job_description = Some(JD_docker_airflow)

\* the four penalties of the claim C8, in its order, for the text of the call
AtsMarkers == Count(text, "U+2022") + Count(text, "-")
AtsHasHeaderHint ==
    \E w \in {S_experience, S_work, S_projects, S_education, S_skills, S_summary,
              S_certifications} : Contains(Lower(text), w)
AtsPenalties ==
    <<[on |-> Len(text) > 18000, penalty |-> 40, reason |-> MSG_too_long],
      [on |-> Contains(text, <<"\t">>), penalty |-> 30, reason |-> MSG_tabs],
      [on |-> AtsMarkers < 5, penalty |-> 30, reason |-> MSG_few_bullets],
      [on |-> ~AtsHasHeaderHint, penalty |-> 30, reason |-> MSG_no_headers]>>
RECURSIVE AtsTriggered(_)
AtsTriggered(ps) ==
    IF ps = <<>> THEN <<>>
    ELSE (IF ps[1].on THEN <<ps[1]>> ELSE <<>>) \o AtsTriggered(Tail(ps))
RECURSIVE AtsPenaltySum(_)
AtsPenaltySum(ps) == IF ps = <<>> THEN 0 ELSE ps[1].penalty + AtsPenaltySum(Tail(ps))

\* C8: the Structure/ATS score is 1.5 less the triggered penalties (0.4 for more than
\* 18000 characters, 0.3 for a tab, 0.3 for fewer than 5 bullet markers, 0.3 for no
\* header hint), kept within 0..1.5, and the reasons are one per triggered penalty in
\* that order; a text of 20000 characters without tabs, with 6 markers and a Skills
\* header, scores 1.1 with one reason.
C8_AtsPenalties ==
    pc = "projects_evidence" =>
        LET hit == AtsTriggered(AtsPenalties)
        IN /\ ats[1] = Max(0, Min(150, 150 - AtsPenaltySum(hit)))
           /\ ats[2] = Tuple([i \in 1..Len(hit) |-> hit[i].reason])
           /\ (/\ Len(text) = 20000
               /\ ~Contains(text, <<"\t">>)
               /\ AtsMarkers = 6
               /\ Contains(text, TIP_skills_section)
               => ats[1] = 110 /\ Len(ats[2]) = 1)

\* the text of 20000 characters of the claim, scored; and a text of exactly 18000
\* characters that is not penalised for its length
C8_Witness ==
    /\ pc = "projects_evidence"
    /\ Len(text) = 20000
    /\ ~Contains(text, <<"\t">>)
    /\ AtsMarkers = 6
    /\ Contains(text, TIP_skills_section)
    /\ ats = <<110, <<MSG_too_long>>>>
C8_WitnessAtLimit ==
    /\ pc = "projects_evidence"
    /\ Len(text) = 18000
    /\ ats = <<150, <<>>>>
C8_WitnessAll ==
    /\ pc = "projects_evidence"
    /\ ats = <<20, <<MSG_too_long, MSG_tabs, MSG_few_bullets, MSG_no_headers>>>>

\* the lines of the text of the call as the claim C9 reads them: stripped; a header holds
\* a hint word in any case and has at most 40 characters
SegLinesOf == LET raw == SplitLines(text) IN Tuple([i \in 1..Len(raw) |-> Strip(raw[i])])
SegHints == <<S_experience, S_work, S_projects, S_education, S_skills, S_summary,
             S_certifications>>
SegIsHeader(ln) == Len(ln) <= 40 /\ \E w \in Range(SegHints) : Contains(Lower(ln), w)
\* the section a header switches to: the first of the hint words it holds
SegKeyOf(ln) ==
    LET held == {n \in 1..Len(SegHints) : Contains(Lower(ln), SegHints[n])}
    IN SegHints[CHOOSE n \in held : \A o \in held : n <= o]
\* the index of the most recent header before line i, 0 when there is none
SegLastHeader(i) ==
    LET before == {j \in 1..(i - 1) : SegIsHeader(SegLinesOf[j])}
    IN IF before = {} THEN 0 ELSE CHOOSE j \in before : \A k \in before : k <= j
\* the lines that are no headers and follow a header for the section key, or no header
\* when the key is summary, in their order
SegAssigned(key) ==
    LET belongs(i) ==
            /\ ~SegIsHeader(SegLinesOf[i])
            /\ IF SegLastHeader(i) = 0 THEN key = S_summary
               ELSE SegKeyOf(SegLinesOf[SegLastHeader(i)]) = key
        idx == SelectSeq(Tuple([i \in 1..Len(SegLinesOf) |-> i]), belongs)
    IN Tuple([j \in 1..Len(idx) |-> SegLinesOf[idx[j]]])

\* C9: a line is a header iff it holds one of the seven hint words in any case and has at
\* most 40 characters; a header switches the section and is not stored; any other line
\* goes to the section of the most recent header before it, or to summary; a key is
\* present iff a line was assigned to it, so without a header only summary can be.
C9_Segmentation ==
    pc = "extract_skills" =>
        /\ DOMAIN sections = {k \in Range(SegHints) : SegAssigned(k) # <<>>}
        /\ \A k \in DOMAIN sections : sections[k] = Strip(Join(S_newline, SegAssigned(k)))
        /\ ((\A i \in 1..Len(SegLinesOf) : ~SegIsHeader(SegLinesOf[i]))
            => DOMAIN sections \subseteq {S_summary})

\* a line of 41 characters that holds a hint is content of the section before it, after a
\* header of exactly 40 characters
C9_Witness ==
    /\ pc = "extract_skills"
    /\ Len(SegLinesOf) = 3
    /\ SegLinesOf[1] = L_b_full
    /\ SegLinesOf[2] = SegHeaderAtMax
    /\ SegLinesOf[3] = SegLineOverMax
    /\ DOMAIN sections = {S_summary, S_projects}
    /\ sections[S_projects] = SegLineOverMax
\* without any header, and a header with nothing after it
C9_WitnessNoHeader ==
    /\ pc = "extract_skills"
    /\ Len(SegLinesOf) = 2
    /\ DOMAIN sections = {S_summary}
    /\ \A i \in 1..Len(SegLinesOf) : ~SegIsHeader(SegLinesOf[i])
C9_WitnessEmptySection ==
    /\ pc = "extract_skills"
    /\ SegLinesOf = <<Strip(L_skills_hdr), L_exp_hdr>>
    /\ DOMAIN sections = {}

\* the hits of the claim C10 for the bullets of the call, read off the kinds of bullets:
\* what each bullet holds is known from how it was written
KindOf(b) == BulletKinds[CHOOSE k \in 1..Len(BulletKinds) : BulletKinds[k].str = b]
HasActionVerbs == "action_verbs" \in DOMAIN ONTOLOGY
BulletActionHits == Cardinality({i \in 1..Len(blts) : HasActionVerbs /\ KindOf(blts[i]).verb})
BulletMetricHits == Cardinality({i \in 1..Len(blts) : KindOf(blts[i]).metric})
BulletTechHits == Cardinality({i \in 1..Len(blts) : KindOf(blts[i]).tech})

\* C10: for n > 0 bullets the score is 3 * (0.8 * action_hits / n + 1.2 * metric_hits / n
\* + 1.0 * tech_hits / n) kept within 0..3.0, to two decimals (within half a hundredth),
\* and each of the three reasons is given iff its hit count is below n / 2; for no
\* bullets the score is 0.0 and the only reason is "No bullet points detected.".
C10_BulletScore ==
    pc = "clarity" =>
        IF blts = <<>>
        THEN bullets_score = [score |-> 0, reasons |-> <<MSG_no_bullets>>]
        ELSE LET n == Len(blts)
                 a == BulletActionHits
                 m == BulletMetricHits
                 t == BulletTechHits
                 \* n times the clamped value, in hundredths
                 exact == Min(300 * n, 3 * (80 * a + 120 * m + 100 * t))
                 off == n * bullets_score.score - exact
             IN /\ bullets_score.score \in 0..300
                /\ 2 * off <= n /\ -n <= 2 * off
                /\ bullets_score.reasons =
                      (IF 2 * a < n THEN <<MSG_lack_verbs>> ELSE <<>>)
                      \o (IF 2 * m < n THEN <<MSG_few_metrics>> ELSE <<>>)
                      \o (IF 2 * t < n THEN <<MSG_miss_tech>> ELSE <<>>)

\* three bullets with one action verb, two metrics and three technologies: 3 * (0.8 / 3
\* + 2.4 / 3 + 3.0 / 3) = 6.2, capped at 3.0, and the verbs alone are found wanting
C10_Witness ==
    /\ pc = "clarity"
    /\ Len(blts) = 3
    /\ BulletActionHits = 1
    /\ BulletMetricHits = 2
    /\ BulletTechHits = 3
    /\ bullets_score = [score |-> 300, reasons |-> <<MSG_lack_verbs>>]
\* below the cap, with a score that is rounded: seven bullets, one with an action verb,
\* 3 * 0.8 / 7 = 0.342..; half of the bullets is enough for no reason; and no bullets
C10_WitnessRounded ==
    /\ pc = "clarity"
    /\ Len(blts) = 7
    /\ BulletActionHits = 1
    /\ BulletMetricHits = 0
    /\ BulletTechHits = 0
    /\ bullets_score.score = 34
C10_WitnessHalf ==
    /\ pc = "clarity"
    /\ Len(blts) = 4
    /\ BulletActionHits = 2
    /\ BulletMetricHits = 2
    /\ BulletTechHits = 2
    /\ bullets_score.reasons = <<>>
C10_WitnessEmpty == pc = "clarity" /\ blts = <<>> /\ bullets_score.score = 0

=============================================================================
